---- MODULE Spec2Model ----
(***************************************************************************)
(* Model of src/pdf/extract_structure.py: the collector of line blocks,    *)
(* the body-font estimator, the heading classifier with its dedup filter,  *)
(* the table detector, extract_structure with its scoped document handle   *)
(* and the command line entry point with its standard-output capture.      *)
(*                                                                         *)
(* Representation.                                                         *)
(*  - A Python str is a sequence of one-character strings; "" is << >>.    *)
(*  - A font size is an integer number of thousandths of a point, so       *)
(*    10.25 is 10250.  round(x, 1) and round(x, 2) are round-half-even to  *)
(*    a multiple of 100 and of 10; the sizes used are those whose ties are *)
(*    exact binary fractions, where Python's round is half-even too.       *)
(*  - ratio = font_size / body_size is kept as the pair of its numerator   *)
(*    and denominator; ratio >= t with t in hundredths is                  *)
(*    100 * num >= t * den.                                                *)
(***************************************************************************)
EXTENDS Integers, Sequences, FiniteSets, TLC

VARIABLES
    pc,              \* position of the running function
    blocks,          \* list[TextBlock] built by the collector / given to the classifier
    \* extract_text_blocks
    page_num, spans, k,
    line_text, line_font_size, line_font_name, line_is_bold, lines_read,
    \* infer_headings
    body_size, headings, seen_texts,
    \* detect_tables
    pages, tables,
    \* extract_structure and main
    argv, pdf_path, pdf_bytes, sys_stdout, real_out, captured,
    doc, closes, after_close, exc, title, result, status

collectVars == <<page_num, spans, k, line_text, line_font_size,
                 line_font_name, line_is_bold, lines_read>>
inferVars == <<body_size, headings, seen_texts>>
tableVars == <<pages, tables>>
runVars == <<argv, pdf_path, pdf_bytes, sys_stdout, real_out, captured,
             doc, closes, after_close, exc, title, result, status>>
vars == <<pc, blocks, collectVars, inferVars, tableVars, runVars>>

----------------------------------------------------------------------------
(* Bounds of the model *)

MaxBlocks == 2        \* blocks given to infer_headings
MaxSizes == 3         \* blocks given to find_body_font_size
MaxSpans == 2         \* spans of one line
MaxLines == 1         \* lines of the document read by the collector
MaxPages == 2         \* pages of the document
MaxDocBlocks == 2     \* blocks of the document in a run of extract_structure
MaxPrints == 1        \* diagnostics the engine prints during one run

----------------------------------------------------------------------------
(* Strings *)

UpperCase == <<"A","B","C","D","E","F","G","H","I","J","K","L","M",
               "N","O","P","Q","R","S","T","U","V","W","X","Y","Z">>
LowerCase == <<"a","b","c","d","e","f","g","h","i","j","k","l","m",
               "n","o","p","q","r","s","t","u","v","w","x","y","z">>

IsUpper(c) == \E n \in DOMAIN UpperCase : UpperCase[n] = c
IsAlpha(c) == IsUpper(c) \/ \E n \in DOMAIN LowerCase : LowerCase[n] = c
LowerChar(c) ==
    IF IsUpper(c)
    THEN LowerCase[CHOOSE n \in DOMAIN UpperCase : UpperCase[n] = c]
    ELSE c
Lower(s) == [n \in DOMAIN s |-> LowerChar(s[n])]

\* the only whitespace character of the texts used here
IsSpace(c) == c = " "

RECURSIVE LStrip(_)
LStrip(s) == IF s # << >> /\ IsSpace(Head(s)) THEN LStrip(Tail(s)) ELSE s
RECURSIVE RStrip(_)
RStrip(s) ==
    IF s # << >> /\ IsSpace(s[Len(s)]) THEN RStrip(SubSeq(s, 1, Len(s) - 1)) ELSE s
Strip(s) == RStrip(LStrip(s))

StartsWith(s, p) == Len(p) <= Len(s) /\ SubSeq(s, 1, Len(p)) = p
EndsWith(s, p) == Len(p) <= Len(s) /\ SubSeq(s, Len(s) - Len(p) + 1, Len(s)) = p
Contains(s, p) ==
    \E n \in 1..(Len(s) - Len(p) + 1) : SubSeq(s, n, n + Len(p) - 1) = p

----------------------------------------------------------------------------
(* Numbers *)

\* round-half-even of x to a multiple of unit (x, unit in thousandths)
RoundTo(x, unit) ==
    LET q == x \div unit
        r == x % unit
    IN  IF 2 * r < unit THEN q * unit
        ELSE IF 2 * r > unit THEN (q + 1) * unit
        ELSE IF q % 2 = 0 THEN q * unit ELSE (q + 1) * unit
Round1(x) == RoundTo(x, 100)
Round2(x) == RoundTo(x, 10)

\* the collector goes through the pages in ascending order
PagesAscend(bs) == \A m, n \in DOMAIN bs : m <= n => bs[m].page <= bs[n].page

TextBlock(text, font_size, font_name, is_bold, page) ==
    [text |-> text, font_size |-> font_size, font_name |-> font_name,
     is_bold |-> is_bold, page |-> page]

----------------------------------------------------------------------------
(* is_likely_heading *)

skip_patterns ==
    { <<"p","r","o","v","i","d","e","d"," ">>,
      <<"p","e","r","m","i","s","s","i","o","n"," ">>,
      <<"r","e","p","r","o","d","u","c","e"," ">>,
      <<"c","o","p","y","r","i","g","h","t"," ">>,
      <<"h","t","t","p",":","/","/">>,
      <<"h","t","t","p","s",":","/","/">>,
      <<"a","r","x","i","v",":">>,
      <<"d","o","i",":">> }

alpha_count(text) == Cardinality({n \in DOMAIN text : IsAlpha(text[n])})

is_likely_heading(text) ==
    IF Len(text) < 2 \/ Len(text) > 150 THEN FALSE
    ELSE IF Contains(SubSeq(text, 1, Len(text) - 1), <<".", " ">>) THEN FALSE
    ELSE IF 2 * alpha_count(text) < Len(text) THEN FALSE
    ELSE IF LET lower == Lower(text)
            IN  \E pattern \in skip_patterns : StartsWith(lower, pattern)
         THEN FALSE
    ELSE IF EndsWith(text, <<"*">>) \/ EndsWith(text, <<"u2217">>) THEN FALSE
    ELSE TRUE

----------------------------------------------------------------------------
(* infer_headings *)

min_ratio == 115      \* default of the min_ratio parameter, in hundredths

\* ratio = block.font_size / body_size if body_size > 0 else 1.0
Ratio(font_size, body) == IF body > 0 THEN <<font_size, body>> ELSE <<1, 1>>
\* ratio >= t, t in hundredths
RatioGE(ratio, t) == 100 * ratio[1] >= t * ratio[2]

LevelNoBoldFallback(ratio, is_bold) ==
    IF RatioGE(ratio, 200) \/ (RatioGE(ratio, 150) /\ is_bold) THEN 1
    ELSE IF RatioGE(ratio, 150) \/ (RatioGE(ratio, 130) /\ is_bold) THEN 2
    ELSE IF RatioGE(ratio, 125) \/ (RatioGE(ratio, 115) /\ is_bold) THEN 3
    ELSE IF RatioGE(ratio, min_ratio) THEN 4
    ELSE 0

Level(ratio, is_bold) ==
    IF RatioGE(ratio, 200) \/ (RatioGE(ratio, 150) /\ is_bold) THEN 1
    ELSE IF RatioGE(ratio, 150) \/ (RatioGE(ratio, 130) /\ is_bold) THEN 2
    ELSE IF RatioGE(ratio, 125) \/ (RatioGE(ratio, 115) /\ is_bold) THEN 3
    ELSE IF RatioGE(ratio, min_ratio) \/ is_bold THEN 4
    ELSE 0

NeverSeen(text, seen) == FALSE

\* if block.text in seen_texts: continue
AlreadySeen(text, seen) == text \in seen

SeenAddAll(seen, text, level) == seen \cup {text}

\* seen_texts.add(block.text), reached only under "if level > 0"
SeenAdd(seen, text, level) == IF level > 0 THEN seen \cup {text} ELSE seen

Heading(level, block) ==
    [level |-> level, text |-> block.text, page |-> block.page,
     font_size |-> Round2(block.font_size)]

\* one iteration of "for block in blocks"; st = [headings, seen_texts]
HeadingStep(st, block, body) ==
    IF AlreadySeen(block.text, st.seen_texts) THEN st
    ELSE IF ~is_likely_heading(block.text) THEN st
    ELSE LET level == Level(Ratio(block.font_size, body), block.is_bold)
         IN  [headings |-> IF level > 0
                           THEN Append(st.headings, Heading(level, block))
                           ELSE st.headings,
              seen_texts |-> SeenAdd(st.seen_texts, block.text, level)]

RECURSIVE InferFrom(_, _, _)
InferFrom(st, bs, body) ==
    IF bs = << >> THEN st.headings
    ELSE InferFrom(HeadingStep(st, Head(bs), body), Tail(bs), body)
infer_headings(bs, body) ==
    InferFrom([headings |-> << >>, seen_texts |-> {}], bs, body)

\* the blocks and body sizes the classifier is run on
Text_Ab == <<"A", "b">>
Text_Cd == <<"C", "d">>
Text_Sentence == <<"a", ".", " ", "b">>
NoFont == << >>
InferSizes == {10000, 11600, 13000, 15004, 22000}
InferBlockPool ==
    {TextBlock(t, s, NoFont, b, p) :
        t \in {Text_Ab, Text_Cd}, s \in InferSizes, b \in BOOLEAN, p \in {1, 2}}
    \cup {TextBlock(Text_Sentence, 22000, NoFont, b, 1) : b \in BOOLEAN}
InferBodySizes == {-10000, 0, 10000}

----------------------------------------------------------------------------
(* Values of the variables a specification does not use *)

CollectIdle ==
    /\ page_num = 0 /\ spans = << >> /\ k = 0
    /\ line_text = << >> /\ line_font_size = 0 /\ line_font_name = << >>
    /\ line_is_bold = FALSE /\ lines_read = 0
InferIdle == body_size = 0 /\ headings = << >> /\ seen_texts = {}
TablesIdle == pages = << >> /\ tables = << >>
NoResult == [unset |-> TRUE]
RunIdle ==
    /\ argv = << >> /\ pdf_path = "None" /\ pdf_bytes = "None"
    /\ sys_stdout = "real" /\ real_out = << >> /\ captured = 0
    /\ doc = "none" /\ closes = 0 /\ after_close = FALSE /\ exc = "none"
    /\ title = << >> /\ result = NoResult /\ status = "running"

----------------------------------------------------------------------------
(* Specification of infer_headings, one loop iteration per step *)

InitInfer ==
    /\ pc = "infer" /\ blocks = << >>
    /\ body_size \in InferBodySizes /\ headings = << >> /\ seen_texts = {}
    /\ CollectIdle /\ TablesIdle /\ RunIdle

InferBlock ==
    /\ pc = "infer" /\ Len(blocks) < MaxBlocks
    /\ \E block \in InferBlockPool :
         LET st == HeadingStep([headings |-> headings, seen_texts |-> seen_texts],
                               block, body_size)
         IN  /\ blocks' = Append(blocks, block)
             /\ headings' = st.headings
             /\ seen_texts' = st.seen_texts
    /\ UNCHANGED <<pc, body_size, collectVars, tableVars, runVars>>

InferReturn ==
    /\ pc = "infer"
    /\ pc' = "infer_done"
    /\ UNCHANGED <<blocks, inferVars, collectVars, tableVars, runVars>>

NextInfer == InferBlock \/ InferReturn
SpecInfer == InitInfer /\ [][NextInfer]_vars

----------------------------------------------------------------------------
(* extract_text_blocks *)

Span(text, size, font, flags) ==
    [text |-> text, size |-> size, font |-> font, flags |-> flags]

\* "bold" in name.lower() or "black" in name.lower() or (flags & 2 ** 4) != 0
IsBold(font_name, flags) ==
    \/ Contains(Lower(font_name), <<"b", "o", "l", "d">>)
    \/ Contains(Lower(font_name), <<"b", "l", "a", "c", "k">>)
    \/ (flags \div 16) % 2 # 0

NotSmallerFont(font_size, current) == font_size >= current

\* if font_size > line_font_size
LargerFont(font_size, current) == font_size > current

\* one iteration of "for span in line.get('spans', [])";
\* ls = [line_text, line_font_size, line_font_name, line_is_bold]
SpanStep(ls, span) ==
    LET text == Strip(span.text)
    IN  IF text = << >> THEN ls
        ELSE IF LargerFont(span.size, ls.line_font_size)
        THEN [line_text |-> ls.line_text \o text \o <<" ">>,
              line_font_size |-> span.size,
              line_font_name |-> span.font,
              line_is_bold |-> IsBold(span.font, span.flags)]
        ELSE [ls EXCEPT !.line_text = ls.line_text \o text \o <<" ">>]

Font_Helv == <<"H", "e", "l", "v">>
Font_xBOLD == <<"x", "B", "O", "L", "D">>
Font_Black == <<"B", "l", "a", "c", "k">>
Span_b == Span(<<" ", "b", " ">>, 12000, Font_xBOLD, 0)
Span_c == Span(<<"c">>, 10000, Font_Helv, 20)
Span_blank == Span(<<" ">>, 20000, Font_Black, 16)
Span_d == Span(<<"d">>, 0, Font_Helv, 2)
Span_e == Span(<<"e">>, 12000, Font_Helv, 2)
SpanPool == {Span_b, Span_c, Span_blank, Span_d, Span_e}
LinePool == UNION {[1..n -> SpanPool] : n \in 0..MaxSpans}

InitCollect ==
    /\ pc = "doc" /\ blocks = << >>
    /\ CollectIdle /\ InferIdle /\ TablesIdle /\ RunIdle

\* for page_num, page in enumerate(doc)
CollectPage ==
    /\ pc \in {"doc", "page", "block"}
    /\ pc = "doc" \/ page_num + 1 < MaxPages
    /\ page_num' = IF pc = "doc" THEN 0 ELSE page_num + 1
    /\ pc' = "page"
    /\ UNCHANGED <<blocks, spans, k, line_text, line_font_size,
                   line_font_name, line_is_bold, lines_read,
                   inferVars, tableVars, runVars>>

\* for block in text_dict.get("blocks", []); non-text blocks are skipped
CollectBlock ==
    /\ pc \in {"page", "block"}
    /\ \E type \in {0, 1} :
         pc' = IF type # 0 THEN "page" ELSE "block"
    /\ UNCHANGED <<blocks, page_num, spans, k, line_text, line_font_size,
                   line_font_name, line_is_bold, lines_read,
                   inferVars, tableVars, runVars>>

\* for line in block.get("lines", [])
CollectLine ==
    /\ pc = "block" /\ lines_read < MaxLines
    /\ \E line \in LinePool : spans' = line
    /\ k' = 0
    /\ line_text' = << >> /\ line_font_size' = 0
    /\ line_font_name' = << >> /\ line_is_bold' = FALSE
    /\ lines_read' = lines_read + 1
    /\ pc' = "line"
    /\ UNCHANGED <<blocks, page_num, inferVars, tableVars, runVars>>

CollectSpan ==
    /\ pc = "line" /\ k < Len(spans)
    /\ LET ls == SpanStep([line_text |-> line_text, line_font_size |-> line_font_size,
                           line_font_name |-> line_font_name,
                           line_is_bold |-> line_is_bold], spans[k + 1])
       IN  /\ line_text' = ls.line_text
           /\ line_font_size' = ls.line_font_size
           /\ line_font_name' = ls.line_font_name
           /\ line_is_bold' = ls.line_is_bold
    /\ k' = k + 1
    /\ UNCHANGED <<pc, blocks, page_num, spans, lines_read,
                   inferVars, tableVars, runVars>>

\* line_text = line_text.strip(); if line_text and line_font_size > 0: append
CollectEndLine ==
    /\ pc = "line" /\ k = Len(spans)
    /\ line_text' = Strip(line_text)
    /\ blocks' = IF line_text' # << >> /\ line_font_size > 0
                 THEN Append(blocks, TextBlock(line_text', line_font_size,
                                               line_font_name, line_is_bold,
                                               page_num + 1))
                 ELSE blocks
    /\ pc' = "block"
    /\ UNCHANGED <<page_num, spans, k, line_font_size, line_font_name,
                   line_is_bold, lines_read, inferVars, tableVars, runVars>>

CollectReturn ==
    /\ pc \in {"doc", "page", "block"}
    /\ pc' = "collect_done"
    /\ UNCHANGED <<blocks, collectVars, inferVars, tableVars, runVars>>

NextCollect ==
    \/ CollectPage \/ CollectBlock \/ CollectLine
    \/ CollectSpan \/ CollectEndLine \/ CollectReturn
SpecCollect == InitCollect /\ [][NextCollect]_vars

----------------------------------------------------------------------------
(* find_body_font_size *)

DefaultBodySize == 12000      \* return 12.0

\* sizes = [round(b.font_size, 1) for b in blocks]
RoundedSizes(bs) == [n \in DOMAIN bs |-> Round1(bs[n].font_size)]

Count(sizes, v) == Cardinality({n \in DOMAIN sizes : sizes[n] = v})

FirstCounted(sizes) == sizes[1]

\* Counter(sizes).most_common(1)[0][0]: the highest count, and among equal
\* counts the value counted first
MostCommon(sizes) ==
    LET best == {n \in DOMAIN sizes :
                    \A m \in DOMAIN sizes : Count(sizes, sizes[n]) >= Count(sizes, sizes[m])}
    IN  sizes[CHOOSE n \in best : \A m \in best : n <= m]

find_body_font_size(bs) ==
    IF bs = << >> THEN DefaultBodySize ELSE MostCommon(RoundedSizes(bs))

BodySizePool == {40, 10000, 10040, 10250, 10260}
BodyBlockPool ==
    {TextBlock(t, s, NoFont, FALSE, 1) : t \in {Text_Ab, Text_Sentence}, s \in BodySizePool}

InitBody ==
    /\ pc = "body" /\ blocks = << >>
    /\ InferIdle /\ CollectIdle /\ TablesIdle /\ RunIdle

BodyBlock ==
    /\ pc = "body" /\ Len(blocks) < MaxSizes
    /\ \E block \in BodyBlockPool : blocks' = Append(blocks, block)
    /\ UNCHANGED <<pc, inferVars, collectVars, tableVars, runVars>>

BodyReturn ==
    /\ pc = "body"
    /\ body_size' = find_body_font_size(blocks)
    /\ pc' = "body_done"
    /\ UNCHANGED <<blocks, headings, seen_texts, collectVars, tableVars, runVars>>

NextBody == BodyBlock \/ BodyReturn
SpecBody == InitBody /\ [][NextBody]_vars

----------------------------------------------------------------------------
(* detect_tables *)

\* a page of the document as the table detector sees it: whether
\* page.find_tables exists, and the data table.extract() gives for each table
\* it finds (a list of rows, each a list of cells)
Page(find_tables, datas) == [find_tables |-> find_tables, tables |-> datas]

Truthy(data) == data # << >>

TableEntry(page_index, data) ==
    [page |-> page_index + 1, rows |-> Len(data),
     cols |-> IF Truthy(data) THEN Len(data[1]) ELSE 0,
     headers |-> IF Truthy(data) THEN data[1] ELSE << >>]

KeepsAny(data) == Truthy(data)

\* if data and len(data) > 1
Keeps(data) == Truthy(data) /\ Len(data) > 1

\* for i, table in enumerate(page_tables)
RECURSIVE AppendTables(_, _, _)
AppendTables(ts, datas, page_index) ==
    IF datas = << >> THEN ts
    ELSE AppendTables(IF Keeps(Head(datas))
                      THEN Append(ts, TableEntry(page_index, Head(datas)))
                      ELSE ts,
                      Tail(datas), page_index)

Reraise(ts) == [tables |-> ts, raised |-> TRUE]

\* except AttributeError: pass
ExceptAttributeError(ts) == [tables |-> ts, raised |-> FALSE]

\* one iteration of "for page_num, page in enumerate(doc)"
TablesStep(ts, page, page_index) ==
    IF ~page.find_tables THEN ExceptAttributeError(ts)
    ELSE [tables |-> AppendTables(ts, page.tables, page_index), raised |-> FALSE]

RECURSIVE DetectFrom(_, _, _)
DetectFrom(ts, ps, page_index) ==
    IF ps = << >> THEN [tables |-> ts, raised |-> FALSE]
    ELSE LET st == TablesStep(ts, Head(ps), page_index)
         IN  IF st.raised THEN st ELSE DetectFrom(st.tables, Tail(ps), page_index + 1)
detect_tables(ps) == DetectFrom(<< >>, ps, 0)

Data0 == << >>
Data1 == << <<"A", "B">> >>
Data2 == << <<"A", "B">>, <<"1", "2">> >>
Data3 == << <<"X">>, <<"y">>, <<"z">> >>
Data4 == << << >>, <<"1">> >>
PagePool ==
    { Page(FALSE, << >>), Page(TRUE, << >>), Page(TRUE, <<Data2>>),
      Page(TRUE, <<Data1>>), Page(TRUE, <<Data0, Data3>>),
      Page(TRUE, <<Data3, Data1, Data2>>), Page(TRUE, <<Data4>>) }

InitTables ==
    /\ pc = "tables" /\ blocks = << >> /\ pages = << >> /\ tables = << >>
    /\ InferIdle /\ CollectIdle /\ RunIdle

TablesPage ==
    /\ pc = "tables" /\ Len(pages) < MaxPages
    /\ \E page \in PagePool :
         LET st == TablesStep(tables, page, Len(pages))
         IN  /\ pages' = Append(pages, page)
             /\ tables' = st.tables
             /\ pc' = IF st.raised THEN "tables_raised" ELSE pc
    /\ UNCHANGED <<blocks, inferVars, collectVars, runVars>>

TablesReturn ==
    /\ pc = "tables"
    /\ pc' = "tables_done"
    /\ UNCHANGED <<blocks, tableVars, inferVars, collectVars, runVars>>

NextTables == TablesPage \/ TablesReturn
SpecTables == InitTables /\ [][NextTables]_vars

----------------------------------------------------------------------------
(* extract_structure and main *)

\* In this part `pages` is the opened document: its pages as the table
\* detector sees them; len(doc) is Len(pages).  `blocks` is what
\* extract_text_blocks returns for it: any list of blocks with a text, a
\* positive font size and page numbers of the document in ascending order
\* (SpecCollect is the collector itself).

AnyPageQualifies(h) == h.level <= 2

\* if h["page"] == 1 and h["level"] <= 2
TitleQualifies(h) == h.page = 1 /\ h.level <= 2

\* title = ""; for h in headings: if ...: title = h["text"]; break
RECURSIVE SelectTitle(_)
SelectTitle(hs) ==
    IF hs = << >> THEN << >>
    ELSE IF TitleQualifies(Head(hs)) THEN Head(hs).text
    ELSE SelectTitle(Tail(hs))

OnSuccessOnly(e) == e = "none"

\* try: ... finally: doc.close() -- the finally clause runs however the try
\* block is left
FinallyRuns(e) == TRUE

StdoutLeftAlone == "real"

\* sys.stdout = io.StringIO()
CaptureStream == "capture"

Json(value) == [json |-> TRUE, value |-> value]
Diagnostic == [json |-> FALSE, value |-> [warning |-> "mupdf"]]
ErrorJson == [error |-> "No input provided"]

\* a write to sys.stdout lands in the stream sys.stdout is bound to
WriteReal(stream, out, item) == IF stream = "real" THEN Append(out, item) ELSE out
WriteCaptured(stream, n) == IF stream = "real" THEN n ELSE n + 1

Truthy_str(x) == x # "None" /\ x # ""

ArgvPool == { << >>, <<"-">>, <<"doc.pdf">>, <<"">> }
StdinPool == { "", "%PDF" }
DocPool ==
    { << >>,
      << Page(TRUE, <<Data2>>) >>,
      << Page(FALSE, << >>), Page(TRUE, <<Data1, Data3>>) >> }
DocBlockPool ==
    {TextBlock(t, sb[1], NoFont, sb[2], p) :
        t \in {Text_Ab, Text_Cd},
        sb \in {<<10000, FALSE>>, <<10000, TRUE>>, <<20000, FALSE>>},
        p \in {1, 2}}
DocBlockLists(page_count) ==
    {bs \in UNION {[1..n -> DocBlockPool] : n \in 0..MaxDocBlocks} :
        /\ PagesAscend(bs)
        /\ \A n \in DOMAIN bs : bs[n].page <= page_count}

TryBlock == {"collect", "body", "infer", "tables", "title", "return"}

Init ==
    /\ pc = "main" /\ blocks = << >>
    /\ argv \in ArgvPool /\ pdf_path = "None" /\ pdf_bytes = "None"
    /\ sys_stdout = "real" /\ real_out = << >> /\ captured = 0
    /\ doc = "none" /\ closes = 0 /\ after_close = FALSE /\ exc = "none"
    /\ title = << >> /\ result = NoResult /\ status = "running"
    /\ CollectIdle /\ InferIdle /\ TablesIdle

\* old_stdout = sys.stdout; sys.stdout = io.StringIO()
MainCapture ==
    /\ pc = "main"
    /\ sys_stdout' = CaptureStream
    /\ pc' = "dispatch"
    /\ UNCHANGED <<blocks, argv, pdf_path, pdf_bytes, real_out, captured, doc, closes,
                   after_close, exc, title, result, status,
                   collectVars, inferVars, tableVars>>

\* if len(sys.argv) > 1 and sys.argv[1] != "-": extract_structure(pdf_path=...)
\* else: pdf_bytes = sys.stdin.buffer.read(); if not pdf_bytes: ...
MainDispatch ==
    /\ pc = "dispatch"
    /\ IF Len(argv) > 0 /\ argv[1] # "-"
       THEN pdf_path' = argv[1] /\ pdf_bytes' = pdf_bytes /\ pc' = "open"
       ELSE \E bytes \in StdinPool :
              /\ pdf_bytes' = bytes /\ pdf_path' = pdf_path
              /\ pc' = IF bytes = "" THEN "no_input" ELSE "open"
    /\ UNCHANGED <<blocks, argv, sys_stdout, real_out, captured, doc, closes,
                   after_close, exc, title, result, status,
                   collectVars, inferVars, tableVars>>

\* sys.stdout = old_stdout; print(json.dumps({"error": ...})); sys.exit(1)
MainNoInput ==
    /\ pc = "no_input"
    /\ sys_stdout' = "real"
    /\ real_out' = WriteReal(sys_stdout', real_out, Json(ErrorJson))
    /\ exc' = "SystemExit"
    /\ pc' = "main_finally"
    /\ UNCHANGED <<blocks, argv, pdf_path, pdf_bytes, captured, doc, closes,
                   after_close, title, result, status,
                   collectVars, inferVars, tableVars>>

\* if pdf_bytes: fitz.open(stream=...) elif pdf_path: fitz.open(pdf_path)
\* else: raise ValueError; fitz.open raises on what it cannot open
StructOpen ==
    /\ pc = "open"
    /\ IF Truthy_str(pdf_bytes) \/ Truthy_str(pdf_path)
       THEN \/ \E d \in DocPool :
                 /\ pages' = d /\ doc' = "open" /\ exc' = exc /\ pc' = "collect"
            \/ /\ exc' = "OpenError" /\ pc' = "main_finally"
               /\ UNCHANGED <<pages, doc>>
       ELSE /\ exc' = "ValueError" /\ pc' = "main_finally"
            /\ UNCHANGED <<pages, doc>>
    /\ UNCHANGED <<blocks, argv, pdf_path, pdf_bytes, sys_stdout, real_out, captured,
                   closes, after_close, title, result, status, tables,
                   collectVars, inferVars>>

\* blocks = extract_text_blocks(doc)
StructCollect ==
    /\ pc = "collect"
    /\ \E bs \in DocBlockLists(Len(pages)) : blocks' = bs
    /\ after_close' = (after_close \/ doc = "closed")
    /\ pc' = "body"
    /\ UNCHANGED <<argv, pdf_path, pdf_bytes, sys_stdout, real_out, captured, doc,
                   closes, exc, title, result, status,
                   collectVars, inferVars, tableVars>>

\* body_size = find_body_font_size(blocks)
StructBody ==
    /\ pc = "body"
    /\ body_size' = find_body_font_size(blocks)
    /\ pc' = "infer"
    /\ UNCHANGED <<blocks, headings, seen_texts, runVars, collectVars, tableVars>>

\* headings = infer_headings(blocks, body_size)
StructInfer ==
    /\ pc = "infer"
    /\ headings' = infer_headings(blocks, body_size)
    /\ pc' = "tables"
    /\ UNCHANGED <<blocks, body_size, seen_texts, runVars, collectVars, tableVars>>

\* tables = detect_tables(doc)
StructTables ==
    /\ pc = "tables"
    /\ LET st == detect_tables(pages)
       IN  /\ tables' = st.tables
           /\ exc' = IF st.raised THEN "AttributeError" ELSE exc
           /\ pc' = IF st.raised THEN "finally" ELSE "title"
    /\ after_close' = (after_close \/ doc = "closed")
    /\ UNCHANGED <<blocks, pages, argv, pdf_path, pdf_bytes, sys_stdout, real_out,
                   captured, doc, closes, title, result, status,
                   collectVars, inferVars>>

StructTitle ==
    /\ pc = "title"
    /\ title' = SelectTitle(headings)
    /\ pc' = "return"
    /\ UNCHANGED <<blocks, argv, pdf_path, pdf_bytes, sys_stdout, real_out, captured,
                   doc, closes, after_close, exc, result, status,
                   collectVars, inferVars, tableVars>>

\* return {...}: the value is built, len(doc) included, before finally runs
StructReturn ==
    /\ pc = "return"
    /\ result' = [title |-> title, body_font_size |-> Round2(body_size),
                  headings |-> headings, tables |-> tables,
                  page_count |-> Len(pages)]
    /\ after_close' = (after_close \/ doc = "closed")
    /\ pc' = "finally"
    /\ UNCHANGED <<blocks, argv, pdf_path, pdf_bytes, sys_stdout, real_out, captured,
                   doc, closes, exc, title, status,
                   collectVars, inferVars, tableVars>>

\* any statement of the try block may raise
StructRaise ==
    /\ pc \in TryBlock
    /\ exc' = "Error"
    /\ pc' = "finally"
    /\ UNCHANGED <<blocks, argv, pdf_path, pdf_bytes, sys_stdout, real_out, captured,
                   doc, closes, after_close, title, result, status,
                   collectVars, inferVars, tableVars>>

\* finally: doc.close()
StructFinally ==
    /\ pc = "finally"
    /\ IF FinallyRuns(exc)
       THEN /\ doc' = "closed" /\ closes' = closes + 1
            /\ after_close' = (after_close \/ doc = "closed")
       ELSE UNCHANGED <<doc, closes, after_close>>
    /\ pc' = "main_finally"
    /\ UNCHANGED <<blocks, argv, pdf_path, pdf_bytes, sys_stdout, real_out, captured,
                   exc, title, result, status,
                   collectVars, inferVars, tableVars>>

\* the engine prints a diagnostic while it works on the document
EnginePrint ==
    /\ pc \in {"open", "collect", "tables"}
    /\ captured < MaxPrints /\ Len(real_out) < MaxPrints
    /\ real_out' = WriteReal(sys_stdout, real_out, Diagnostic)
    /\ captured' = WriteCaptured(sys_stdout, captured)
    /\ UNCHANGED <<pc, blocks, argv, pdf_path, pdf_bytes, sys_stdout, doc, closes,
                   after_close, exc, title, result, status,
                   collectVars, inferVars, tableVars>>

\* finally: sys.stdout = old_stdout; an exception then leaves main
MainFinally ==
    /\ pc = "main_finally"
    /\ sys_stdout' = "real"
    /\ IF exc # "none"
       THEN status' = "1" /\ pc' = "exit"
       ELSE status' = status /\ pc' = "print"
    /\ UNCHANGED <<blocks, argv, pdf_path, pdf_bytes, real_out, captured, doc, closes,
                   after_close, exc, title, result,
                   collectVars, inferVars, tableVars>>

\* print(json.dumps(result, indent=2))
MainPrint ==
    /\ pc = "print"
    /\ real_out' = WriteReal(sys_stdout, real_out, Json(result))
    /\ captured' = WriteCaptured(sys_stdout, captured)
    /\ status' = "0"
    /\ pc' = "exit"
    /\ UNCHANGED <<blocks, argv, pdf_path, pdf_bytes, sys_stdout, doc, closes,
                   after_close, exc, title, result,
                   collectVars, inferVars, tableVars>>

Next ==
    \/ MainCapture \/ MainDispatch \/ MainNoInput
    \/ StructOpen \/ StructCollect \/ StructBody \/ StructInfer \/ StructTables
    \/ StructTitle \/ StructReturn \/ StructRaise \/ StructFinally
    \/ EnginePrint \/ MainFinally \/ MainPrint
Spec == Init /\ [][Next]_vars

----------------------------------------------------------------------------
(* Claims about extract_text_blocks (SpecCollect) *)

Max(S) == CHOOSE x \in S : \A y \in S : x >= y
Min(S) == CHOOSE x \in S : \A y \in S : x <= y

\* the last element of a list
LastBlock(bs) == bs[Len(bs)]

C10_Bold(span) ==
    \/ \E n \in 1..(Len(span.font) - 3) :
         Lower(SubSeq(span.font, n, n + 3)) = <<"b", "o", "l", "d">>
    \/ \E n \in 1..(Len(span.font) - 4) :
         Lower(SubSeq(span.font, n, n + 4)) = <<"b", "l", "a", "c", "k">>
    \/ span.flags % 32 >= 16

\* the spans of the line whose trimmed text is not empty
C10_Visible == {n \in DOMAIN spans : \E m \in DOMAIN spans[n].text : spans[n].text[m] # " "}

\* what the line must yield when its font is decided among the spans `among`
C10_LineYields(among) ==
    LET top == Max({spans[n].size : n \in among})
        holder == Min({n \in among : spans[n].size = top})
    IN  IF C10_Visible = {} \/ among = {} \/ top = 0
        THEN blocks' = blocks
        ELSE /\ Len(blocks') = Len(blocks) + 1
             /\ SubSeq(blocks', 1, Len(blocks)) = blocks
             /\ LastBlock(blocks').font_size = top
             /\ LastBlock(blocks').font_name = spans[holder].font
             /\ LastBlock(blocks').is_bold = C10_Bold(spans[holder])
             /\ LastBlock(blocks').page = page_num + 1
             /\ LastBlock(blocks').text # << >>

C10_LineEnds == pc = "line" /\ pc' = "block"

\* C10 as stated: font size, font name and boldness of a line are those of
\* the first span with the maximum font size among ALL spans of the line; no
\* block when the text is empty or that size is zero.
C10_MaxOverAllSpans == [][C10_LineEnds => C10_LineYields(DOMAIN spans)]_vars

\* C10 amended: the maximum is taken among the spans whose trimmed text is not
\* empty (a whitespace-only span is skipped before its font is looked at);
\* font name and boldness are those of the first such span holding that
\* maximum, boldness being "bold"/"black" in the font name case-insensitively
\* or flag bit 16; no block when no span has text or that maximum is zero.
C10_MaxOverTextSpans == [][C10_LineEnds => C10_LineYields(C10_Visible)]_vars

\* a bold span with the smaller font did not make the line bold
C10_Witness ==
    /\ pc = "block" /\ spans = <<Span_c, Span_e>>
    /\ blocks = <<TextBlock(<<"c", " ", "e">>, 12000, Font_Helv, FALSE, page_num + 1)>>

----------------------------------------------------------------------------
(* Claims about infer_headings (SpecInfer) *)

\* C1: the heading list never holds two entries with the same text, after
\* every block processed.
C1_UniqueTexts ==
    \A m, n \in DOMAIN headings : m # n => headings[m].text # headings[n].text

\* two qualifying blocks with the same text were processed, one heading stands
C1_Witness ==
    /\ Len(blocks) = 2 /\ body_size = 10000
    /\ blocks[1].text = Text_Ab /\ blocks[2].text = Text_Ab
    /\ blocks[1].font_size = 22000 /\ blocks[2].font_size = 15004
    /\ Len(headings) = 1

\* the priority cascade as the claim states it: 0 is "no row matches"
C2_Row(font_size, is_bold, body) ==
    LET ge(t) == IF body > 0 THEN 100 * font_size >= t * body ELSE 100 >= t
    IN  CASE ge(200) \/ (ge(150) /\ is_bold) -> 1
          [] ~(ge(200) \/ (ge(150) /\ is_bold))
             /\ (ge(150) \/ (ge(130) /\ is_bold)) -> 2
          [] ~(ge(150) \/ (ge(130) /\ is_bold))
             /\ (ge(125) \/ (ge(115) /\ is_bold)) -> 3
          [] ~(ge(125) \/ (ge(115) /\ is_bold))
             /\ (ge(115) \/ is_bold) -> 4
          [] OTHER -> 0

\* the step processes a block that is a candidate: text not yet among the
\* headings and passing the text filter
C2_CandidateStep ==
    /\ Len(blocks') = Len(blocks) + 1
    /\ \A n \in DOMAIN headings : headings[n].text # LastBlock(blocks').text
    /\ is_likely_heading(LastBlock(blocks').text)

C2_StepLevel ==
    C2_CandidateStep =>
        LET b == LastBlock(blocks')
            row == C2_Row(b.font_size, b.is_bold, body_size)
        IN  /\ row = 0 => headings' = headings
            /\ row > 0 =>
                 /\ Len(headings') = Len(headings) + 1
                 /\ SubSeq(headings', 1, Len(headings)) = headings
                 /\ LastBlock(headings').level = row
                 /\ LastBlock(headings').text = b.text
            /\ body_size = 10000 /\ ~b.is_bold /\ b.font_size = 22000
                 => Len(headings') > Len(headings) /\ LastBlock(headings').level = 1
            /\ body_size = 10000 /\ b.is_bold /\ b.font_size = 13000
                 => Len(headings') > Len(headings) /\ LastBlock(headings').level = 2
            /\ body_size = 10000 /\ ~b.is_bold /\ b.font_size = 11600
                 => Len(headings') > Len(headings) /\ LastBlock(headings').level = 4
            /\ body_size = 10000 /\ ~b.is_bold /\ b.font_size = 10000
                 => headings' = headings

\* C2: every accepted heading has a level in 1..4, the first matching row of
\* the cascade on (font_size / body_size, is_bold), ratio 1.0 when
\* body_size <= 0; a candidate matching no row adds nothing; the four
\* examples with body size 10.0.
C2_LevelCascade ==
    /\ [](\A n \in DOMAIN headings : headings[n].level \in 1..4)
    /\ [][C2_StepLevel]_vars

\* with body 10.0: 13.0 bold was accepted at level 2 and 10.0 non-bold, a
\* candidate, left the list as it was
C2_Witness ==
    /\ body_size = 10000 /\ Len(blocks) = 2
    /\ blocks[1] = TextBlock(Text_Ab, 13000, NoFont, TRUE, 1)
    /\ blocks[2] = TextBlock(Text_Cd, 10000, NoFont, FALSE, 1)
    /\ Len(headings) = 1 /\ headings[1].level = 2

C9_Earliest(text) == Min({j \in DOMAIN blocks : blocks[j].text = text})

\* C9 as stated: every heading carries page, font size and level of the
\* earliest block, in the collector's order, whose text equals it.
C9_EarliestBlockWins ==
    PagesAscend(blocks) =>
        \A n \in DOMAIN headings :
            LET b == blocks[C9_Earliest(headings[n].text)]
            IN  /\ headings[n].page = b.page
                /\ headings[n].font_size = Round2(b.font_size)
                /\ headings[n].level = C2_Row(b.font_size, b.is_bold, body_size)

\* a block qualifies when the text filter passes it and a cascade row matches
C9_Qualifies(b) ==
    is_likely_heading(b.text) /\ C2_Row(b.font_size, b.is_bold, body_size) > 0

\* the blocks that become headings: qualifying, and no qualifying block with
\* the same text before them
C9_Accepted ==
    {j \in DOMAIN blocks :
        /\ C9_Qualifies(blocks[j])
        /\ \A i \in 1..(j - 1) :
             ~(blocks[i].text = blocks[j].text /\ C9_Qualifies(blocks[i]))}

RECURSIVE C9_Expected(_, _)
C9_Expected(n, accepted) ==
    IF n = 0 THEN << >>
    ELSE IF n \in accepted
         THEN Append(C9_Expected(n - 1, accepted),
                     [level |-> C2_Row(blocks[n].font_size, blocks[n].is_bold,
                                       body_size),
                      text |-> blocks[n].text, page |-> blocks[n].page,
                      font_size |-> Round2(blocks[n].font_size)])
         ELSE C9_Expected(n - 1, accepted)

\* C9 amended: the heading list is, in block order, one entry for each text's
\* earliest QUALIFYING block (filter passed, level 1..4), with that block's
\* page, rounded font size and level; blocks with the same text before it
\* that did not qualify and all blocks with the same text after it add and
\* replace nothing.
C9_FirstQualifyingWins == headings = C9_Expected(Len(blocks), C9_Accepted)

\* a later qualifying block with the text of an accepted heading was skipped
C9_Witness ==
    /\ Len(blocks) = 2 /\ body_size = 10000
    /\ blocks[1] = TextBlock(Text_Ab, 13000, NoFont, FALSE, 1)
    /\ blocks[2] = TextBlock(Text_Ab, 22000, NoFont, TRUE, 2)
    /\ headings = <<[level |-> 3, text |-> Text_Ab, page |-> 1, font_size |-> 13000]>>

----------------------------------------------------------------------------
(* Claims about find_body_font_size (SpecBody) *)

\* C4: 12.0 for the empty list; otherwise a one-decimal rounding of a block's
\* font size that occurs, among the rounded sizes of all blocks, at least as
\* often as every other rounded size.
C4_BodyIsMode ==
    pc = "body_done" =>
        IF blocks = << >> THEN body_size = 12000
        ELSE /\ body_size % 100 = 0
             /\ \E n \in DOMAIN blocks :
                    /\ 2 * (body_size - blocks[n].font_size) <= 100
                    /\ 2 * (blocks[n].font_size - body_size) <= 100
             /\ \A v \in {Round1(blocks[n].font_size) : n \in DOMAIN blocks} :
                    Count(RoundedSizes(blocks), body_size) >= Count(RoundedSizes(blocks), v)

\* the mode 10.0 is reached by two sizes that round to it, one of them on a
\* block the text filter rejects, and is not the size of the first block
C4_Witness ==
    /\ pc = "body_done" /\ Len(blocks) = 3
    /\ blocks[1].font_size = 10260 /\ blocks[2].font_size = 10000
    /\ blocks[3].font_size = 10040 /\ body_size = 10000
    /\ ~is_likely_heading(blocks[3].text)

\* the default for a document without text blocks
C4_WitnessEmpty == pc = "body_done" /\ blocks = << >> /\ body_size = 12000

----------------------------------------------------------------------------
(* Claims about detect_tables (SpecTables) *)

\* every table the engine reports, in page order and then order of discovery
RECURSIVE C7_Reported(_)
C7_Reported(p) ==
    IF p = 0 THEN << >>
    ELSE C7_Reported(p - 1) \o
         (IF pages[p].find_tables
          THEN [n \in 1..Len(pages[p].tables) |-> [page |-> p, data |-> pages[p].tables[n]]]
          ELSE << >>)

C7_TwoRows(t) == Len(t.data) >= 2

C7_Expected ==
    LET kept == SelectSeq(C7_Reported(Len(pages)), C7_TwoRows)
    IN  [n \in 1..Len(kept) |->
            [page |-> kept[n].page, rows |-> Len(kept[n].data),
             cols |-> Len(kept[n].data[1]), headers |-> kept[n].data[1]]]

\* C7: the tables list is one entry per reported table with at least 2 rows,
\* in page order then discovery order, with the 1-based page, the row count,
\* the length of the first row and the first row; every entry has rows >= 2.
C7_TablesExact ==
    /\ tables = C7_Expected
    /\ \A n \in DOMAIN tables : tables[n].rows >= 2

\* tables of 0 and 1 rows were dropped, those of 3, 3 and 2 rows kept in order
C7_Witness ==
    /\ Len(pages) = 2
    /\ pages[1] = Page(TRUE, <<Data0, Data3>>)
    /\ pages[2] = Page(TRUE, <<Data3, Data1, Data2>>)
    /\ Len(tables) = 3
    /\ tables[3] = [page |-> 2, rows |-> 2, cols |-> 2, headers |-> <<"A", "B">>]

C8_EntriesOf(p) == SelectSeq(tables, LAMBDA t : t.page = p)
C8_KeptOn(p) == Cardinality({n \in DOMAIN pages[p].tables : Len(pages[p].tables[n]) >= 2})

\* C8: a page without the table finder does not make detect_tables fail; it
\* contributes no table, and the pages before and after it that have the
\* finder keep all their tables.
C8_MissingFinderTolerated ==
    /\ pc # "tables_raised"
    /\ \A p \in DOMAIN pages :
         IF pages[p].find_tables
         THEN Len(C8_EntriesOf(p)) = C8_KeptOn(p)
         ELSE Len(C8_EntriesOf(p)) = 0

\* the finder is missing on page 1 and page 2 still reports its table
C8_Witness ==
    /\ pc = "tables_done" /\ Len(pages) = 2
    /\ ~pages[1].find_tables /\ pages[2] = Page(TRUE, <<Data2>>)
    /\ tables = <<[page |-> 2, rows |-> 2, cols |-> 2, headers |-> <<"A", "B">>]>>

----------------------------------------------------------------------------
(* Claims about extract_structure and main (Spec) *)

C3_Qualifying(hs) == {n \in DOMAIN hs : hs[n].page = 1 /\ hs[n].level <= 2}

\* C3: the returned title is the text of the first heading of the returned
\* list with page 1 and level <= 2, and is "" exactly when there is none.
C3_TitleIsFirstQualifying ==
    result # NoResult =>
        LET q == C3_Qualifying(result.headings)
        IN  /\ q = {} => result.title = << >>
            /\ q # {} => result.title = result.headings[Min(q)].text
            /\ result.title = << >> <=> q = {}

\* a level-4 heading of page 1 comes first and the level-1 heading after it
\* is the title
C3_Witness ==
    /\ result # NoResult
    /\ Len(result.headings) = 2
    /\ result.headings[1].page = 1 /\ result.headings[1].level = 4
    /\ result.headings[2].page = 1 /\ result.headings[2].level = 1
    /\ result.title = result.headings[2].text

\* a heading of level 1 on page 2 only: no title
C3_WitnessLaterPage ==
    /\ result # NoResult
    /\ Len(result.headings) = 1
    /\ result.headings[1].page = 2 /\ result.headings[1].level = 1
    /\ result.title = << >>

C5_Returned == pc \in {"main_finally", "print", "exit"}

\* C5: the document is closed exactly once before extract_structure returns
\* or raises, if it was opened; nothing uses it after the close; the
\* ValueError for neither path nor bytes comes with no document opened.
C5_HandleScoped ==
    /\ closes <= 1
    /\ ~after_close
    /\ doc = "none" => closes = 0
    /\ doc = "open" => closes = 0
    /\ C5_Returned => doc # "open" /\ (doc = "closed" <=> closes = 1)
    /\ exc = "ValueError" => doc = "none" /\ closes = 0

\* a statement of the try block raised and the document was closed once
C5_Witness ==
    /\ pc = "exit" /\ exc = "Error" /\ doc = "closed" /\ closes = 1
    /\ result = NoResult

\* the normal return, page count read, closed the document once
C5_WitnessReturn ==
    /\ pc = "exit" /\ exc = "none" /\ doc = "closed" /\ closes = 1
    /\ result # NoResult

C6_NoInput == (argv = << >> \/ argv[1] = "-") /\ pdf_bytes = ""

C6_Always ==
    /\ \A n \in DOMAIN real_out : real_out[n].json
    /\ pc = "exit" => sys_stdout = "real"
    /\ \A n \in DOMAIN real_out :
         real_out[n] # Json(ErrorJson) => pc = "exit" /\ doc = "closed"
    /\ pc = "exit" /\ C6_NoInput =>
         /\ real_out = <<Json(ErrorJson)>>
         /\ status = "1"
         /\ doc = "none" /\ result = NoResult

\* C6 as stated: in every run of main that is not the no-input case the real
\* standard output receives exactly one result document.
C6_AlwaysOneDocument ==
    /\ C6_Always
    /\ pc = "exit" /\ ~C6_NoInput => real_out = <<Json(result)>> /\ result # NoResult

\* C6 amended: the real standard output receives only JSON; in the no-input
\* case exactly the error object, a non-zero exit, no extraction and no result
\* document; when extraction returns, exactly one result document, written
\* after extraction has finished, and exit status 0; when extraction raises,
\* nothing at all and a non-zero exit; diagnostics printed while extraction
\* runs go to the capture buffer; sys.stdout is the original stream at every
\* exit from main.
C6_StdoutJsonOnly ==
    /\ C6_Always
    /\ pc = "exit" /\ ~C6_NoInput /\ exc = "none" =>
         real_out = <<Json(result)>> /\ result # NoResult /\ status = "0"
    /\ pc = "exit" /\ ~C6_NoInput /\ exc # "none" =>
         real_out = << >> /\ status = "1"

\* a diagnostic was printed during extraction and the real standard output
\* holds the result document alone
C6_Witness ==
    /\ pc = "exit" /\ captured = 1 /\ exc = "none"
    /\ real_out = <<Json(result)>> /\ result # NoResult

\* empty standard input: the error object alone
C6_WitnessNoInput ==
    /\ pc = "exit" /\ argv = <<"-">> /\ pdf_bytes = ""
    /\ real_out = <<Json(ErrorJson)>> /\ status = "1"

====
